---- MODULE Spec2Model ----
(***************************************************************************)
(* Model of the icon pack installer core (src/core.py): file matching,     *)
(* the batch apply pipeline, the library cache update and the desktop      *)
(* shortcut update.                                                        *)
(*                                                                         *)
(* A file name is the sequence of its dot-separated components:            *)
(* "a.tar.gz" is <<"a", "tar", "gz">>.  Splitting at dots is a bijection   *)
(* between names and non-empty component sequences, so pathlib's suffix,   *)
(* stem and glob are computed on components.  The name universes below     *)
(* hold only non-empty components (no hidden files, no trailing dot).      *)
(***************************************************************************)
EXTENDS Integers, Sequences, FiniteSets, TLC

\* ------------------------------------------------------------------ bounds
MaxIcons == 2
MaxTargets == 3
MaxEntries == 2
MaxShortcuts == 1
MaxLines == 3

\* ----------------------------------------------------------------- helpers
Range(s) == {s[i] : i \in 1..Len(s)}

IsDistinct(s) == \A i, j \in 1..Len(s) : i # j => s[i] # s[j]

\* All sequences over S of length at most n without repeated elements.
DistinctSeqs(S, n) ==
    {s \in UNION {[1..k -> S] : k \in 0..n} : IsDistinct(s)}

\* str.lower() on the components the model uses.
Lower(s) ==
    CASE s = "ICO" -> "ico"
      [] s = "JPG" -> "jpg"
      [] s = "JPEG" -> "jpeg"
      [] s = "A" -> "a"
      [] s = "B" -> "b"
      [] s = "URL" -> "url"
      [] s = "DESKTOP" -> "desktop"
      [] OTHER -> s

\* Path.suffix without its dot: the last component of a name that has more
\* than one component, "" otherwise.
Suffix(f) == IF Len(f) > 1 THEN f[Len(f)] ELSE ""

\* Path.stem: the name with its last suffix removed.
Stem(f) == IF Len(f) > 1 THEN SubSeq(f, 1, Len(f) - 1) ELSE f

\* file.suffix.lower().lstrip('.')
Ext(f) == Lower(Suffix(f))

\* A mutant of RemoveFirst: list.pop() in place of list.remove(x).
RemoveLast(s, x) == IF s = <<>> THEN <<>> ELSE SubSeq(s, 1, Len(s) - 1)

\* list.remove(x): drops the first element equal to x.
RECURSIVE RemoveFirst(_, _)
RemoveFirst(s, x) ==
    IF s = <<>> THEN <<>>
    ELSE IF Head(s) = x THEN Tail(s)
    ELSE <<Head(s)>> \o RemoveFirst(Tail(s), x)

\* ------------------------------------------------- get_matching_pairs
\* The dict ext_to_targets: each lowercased extension of a target, mapped to
\* the targets carrying it, in target list order.
ExtToTargets(targets) ==
    [e \in {Ext(t) : t \in Range(targets)} |->
        SelectSeq(targets, LAMBDA t : Ext(t) = e)]

\* A mutant of ConsumeTarget: the used target stays in the pool.
ConsumeTargetKeep(pool, ext) == pool

\* ext_to_targets[icon_ext].remove(target), target being the pool's first.
ConsumeTarget(pool, ext) ==
    [pool EXCEPT ![ext] = RemoveFirst(pool[ext], pool[ext][1])]

\* A mutant of PickTarget: the last available target instead of the first.
PickTargetLast(pool, ext) == pool[ext][Len(pool[ext])]

\* target = ext_to_targets[icon_ext][0]
PickTarget(pool, ext) == pool[ext][1]

\* The loop over icon_files, from icon i on, with the pool left by the
\* icons before i.
RECURSIVE MatchLoop(_, _, _)
MatchLoop(icons, i, pool) ==
    IF i > Len(icons) THEN <<>>
    ELSE LET ext == Ext(icons[i]) IN
         IF ext \in DOMAIN pool /\ pool[ext] # <<>>
         THEN <<  <<icons[i], PickTarget(pool, ext)>>  >>
              \o MatchLoop(icons, i + 1, ConsumeTarget(pool, ext))
         ELSE MatchLoop(icons, i + 1, pool)

GetMatchingPairs(icons, targets) == MatchLoop(icons, 1, ExtToTargets(targets))

\* ------------------------------------------------ globbing a directory
\* A directory is the sequence of its entries in the order os.scandir yields
\* them; an entry is [name, is_file].  pathlib's glob keeps that order.

\* Equality of two name components under the platform's glob: pathlib folds
\* case on Windows and compares exactly elsewhere.
CompEq(plat, a, b) == IF plat = "Windows" THEN Lower(a) = Lower(b) ELSE a = b

\* Whether file name f matches the pattern f"{game_name}.*": f is game_name,
\* a dot, and anything (dots included).
GlobNameDotStar(plat, game_name, f) ==
    /\ Len(f) > Len(game_name)
    /\ \A i \in 1..Len(game_name) : CompEq(plat, f[i], game_name[i])

\* Whether file name f matches the pattern f"*.{ext}", ext holding no dot.
GlobStarDotExt(plat, ext, f) ==
    /\ Len(f) > 1
    /\ CompEq(plat, f[Len(f)], ext)

NamesOf(entries) == [i \in 1..Len(entries) |-> entries[i].name]

\* find_icon_files: the regular files of style_dir matching game_name.*
FindIconFiles(plat, game_name, style_dir) ==
    NamesOf(SelectSeq(style_dir,
        LAMBDA e : GlobNameDotStar(plat, game_name, e.name) /\ e.is_file))

\* find_target_files: for each extension, in the iteration order ext_order of
\* the extensions set, the entries of target_dir matching *.ext, appended.
RECURSIVE FindTargetFiles(_, _, _)
FindTargetFiles(plat, target_dir, ext_order) ==
    IF ext_order = <<>> THEN <<>>
    ELSE NamesOf(SelectSeq(target_dir,
             LAMBDA e : GlobStarDotExt(plat, Head(ext_order), e.name)))
         \o FindTargetFiles(plat, target_dir, Tail(ext_order))

\* The iteration orders of a set: its elements in any order, each once.
Orders(S) == {s \in [1..Cardinality(S) -> S] : Range(s) = S}

\* No two entries of a directory have the same name; on Windows, nor names
\* that differ in case only.
IsDirectory(plat, entries) ==
    \A i, j \in 1..Len(entries) :
        i # j =>
            /\ entries[i].name # entries[j].name
            /\ plat = "Windows" =>
                   \/ Len(entries[i].name) # Len(entries[j].name)
                   \/ \E k \in 1..Len(entries[i].name) :
                         Lower(entries[i].name[k]) # Lower(entries[j].name[k])

\* ------------------------------------------------ apply_icons_to_games
\* config.GAME_MAPPING: game id -> (display name, target path, app id).
GAME_MAPPING ==
    (1 :> [name |-> <<"a">>, target_rel |-> "common/a", appid |-> 70])
    @@ (2 :> [name |-> <<"b">>, target_rel |-> "common/b", appid |-> 700])

\* config.STYLES; style k of the list has its icons in icons/style<k>.
STYLES == <<"Default", "Dark">>

NoFile == <<>>

\* One (game_name, success, message) tuple of the results list.  id is the
\* game id the tuple was produced for; kind, count, src and dest are the
\* parts of the message.
Outcome(id, ok, kind, count, src, dest) ==
    [id |-> id, name |-> GAME_MAPPING[id].name, success |-> ok,
     kind |-> kind, count |-> count, src |-> src, dest |-> dest]

Failure(id, kind) == Outcome(id, FALSE, kind, 0, NoFile, NoFile)

\* suffix.lower() in ('.jpg', '.jpeg')
IsJpeg(f) == Len(f) > 1 /\ Lower(Suffix(f)) \in {"jpg", "jpeg"}

\* The index of the first TRUE of a sequence of booleans, 0 when there is
\* none: where a for loop with a break stops.
FirstTrue(b) ==
    IF \E i \in 1..Len(b) : b[i]
    THEN CHOOSE i \in 1..Len(b) : b[i] /\ \A j \in 1..(i - 1) : ~b[j]
    ELSE 0

\* _update_library_cache up to its copy: the source icon and the cache file
\* it is copied onto, or NoFile twice when the function returns False.
\* lib is [is_dir, files], files the names iterdir yields, in its order.
LibraryCopy(icons, lib) ==
    LET existing == IF lib.is_dir THEN SelectSeq(lib.files, IsJpeg) ELSE <<>>
        j == FirstTrue([i \in 1..Len(icons) |-> IsJpeg(icons[i])])
    IN  IF ~lib.is_dir \/ existing = <<>> \/ j = 0
        THEN [src |-> NoFile, dest |-> NoFile]
        ELSE [src |-> icons[j], dest |-> existing[1]]

\* A mutant of PcAfterLibrary: one try block around both updates, so that a
\* failed library update skips the shortcut update.
PcAfterLibraryOneTry(raised) == IF raised THEN "loop" ELSE "shortcuts"

\* After the library cache update, raised or not, the shortcut update runs.
PcAfterLibrary(raised) == "shortcuts"

\* A mutant of IndexAfterFailedCopy: break in place of continue.
IndexAfterFailedCopyBreak(i, n) == n + 1

\* The pair the copy loop turns to after the copy of pair i of n raised.
IndexAfterFailedCopy(i, n) == i + 1

\* The icon the shortcut update uses: applied_files.get('ico') on Windows,
\* applied_files.get('jpg') or applied_files.get('ico') elsewhere.
ShortcutIconPath(plat, applied) ==
    IF plat # "Windows" /\ "jpg" \in DOMAIN applied THEN applied["jpg"]
    ELSE IF "ico" \in DOMAIN applied THEN applied["ico"]
    ELSE NoFile

\* ------------------------------------------------------ shortcut files
\* A text is a sequence of tokens: the newline tokens "\n" and "\r\n", and
\* tokens that hold no newline ("URL=", "steam://rungameid/", one digit, a
\* quote, ...).  A line is a text without newline tokens.

StartsWith(line, prefix) ==
    Len(line) >= Len(prefix) /\ SubSeq(line, 1, Len(prefix)) = prefix

\* pattern in content
Contains(text, pattern) ==
    \E i \in 0..(Len(text) - Len(pattern)) :
        SubSeq(text, i + 1, i + Len(pattern)) = pattern

\* content.split('\n')
RECURSIVE Split(_)
Split(text) ==
    IF \E i \in 1..Len(text) : text[i] = "\n"
    THEN LET i == CHOOSE i \in 1..Len(text) :
                     text[i] = "\n" /\ \A j \in 1..(i - 1) : text[j] # "\n"
         IN  <<SubSeq(text, 1, i - 1)>> \o Split(SubSeq(text, i + 1, Len(text)))
    ELSE <<text>>

\* '\n'.join(lines)
RECURSIVE Join(_)
Join(lines) ==
    IF lines = <<>> THEN <<>>
    ELSE IF Len(lines) = 1 THEN lines[1]
    ELSE lines[1] \o <<"\n">> \o Join(Tail(lines))

\* Path.read_text: universal newlines turn every "\r\n" into "\n".
ReadText(bytes) ==
    [i \in 1..Len(bytes) |-> IF bytes[i] = "\r\n" THEN "\n" ELSE bytes[i]]

\* Path.write_text: "\n" is written as os.linesep, "\r\n" on Windows.
WriteText(plat, text) ==
    [i \in 1..Len(text) |->
        IF text[i] = "\n" /\ plat = "Windows" THEN "\r\n" ELSE text[i]]

Digit == <<"0", "1", "2", "3", "4", "5", "6", "7", "8", "9">>

\* str(appid): the decimal digits of a natural number.
RECURSIVE Str(_)
Str(n) ==
    IF n < 10 THEN <<Digit[n + 1]>>
    ELSE Str(n \div 10) \o <<Digit[(n % 10) + 1]>>

\* str(icon_path): the components of the file name joined by dots.
RECURSIVE PathStr(_)
PathStr(f) ==
    IF Len(f) <= 1 THEN f
    ELSE <<f[1], ".">> \o PathStr(Tail(f))

\* steam_url_patterns
SteamUrlPatterns(appid) ==
    << <<"steam://rungameid/">> \o Str(appid),
       <<"steam://run/">> \o Str(appid),
       <<"\"", "steam://rungameid/">> \o Str(appid) \o <<"\"">>,
       <<"\"", "steam://run/">> \o Str(appid) \o <<"\"">> >>

\* any(pattern in content for pattern in steam_patterns)
MatchesAny(content, patterns) ==
    \E k \in 1..Len(patterns) : Contains(content, patterns[k])

\* list.insert(k - 1, x): x becomes element k; past the end it is appended.
InsertAt(lines, k, x) ==
    IF k > Len(lines) THEN Append(lines, x)
    ELSE SubSeq(lines, 1, k - 1) \o <<x>> \o SubSeq(lines, k, Len(lines))

\* A mutant of InsertUrlIconLines: the lines go in before the URL line.
InsertUrlIconLinesBefore(lines, i, icon_path) ==
    InsertAt(InsertAt(lines, i, <<"IconFile=">> \o PathStr(icon_path)),
             i + 1, <<"IconIndex=", "0">>)

\* lines.insert(i + 1, f'IconFile={icon_path}'); lines.insert(i + 2,
\* 'IconIndex=0'), i being the position of the URL line.
InsertUrlIconLines(lines, i, icon_path) ==
    InsertAt(InsertAt(lines, i + 1, <<"IconFile=">> \o PathStr(icon_path)),
             i + 2, <<"IconIndex=", "0">>)

\* The lines _update_windows_shortcut writes for the lines of a matched file.
WindowsShortcutLines(lines, icon_path) ==
    LET i == FirstTrue([k \in 1..Len(lines) |->
                           StartsWith(lines[k], <<"IconFile=">>)])
        u == FirstTrue([k \in 1..Len(lines) |->
                           StartsWith(lines[k], <<"URL=">>)])
    IN  IF i # 0
        THEN [lines EXCEPT ![i] = <<"IconFile=">> \o PathStr(icon_path)]
        ELSE IF u # 0 THEN InsertUrlIconLines(lines, u, icon_path)
        ELSE lines

\* line.strip() on a line whose whitespace is the token " ".
RECURSIVE Strip(_)
Strip(line) ==
    IF line # <<>> /\ Head(line) = " " THEN Strip(Tail(line))
    ELSE IF line # <<>> /\ line[Len(line)] = " "
         THEN Strip(SubSeq(line, 1, Len(line) - 1))
    ELSE line

\* A mutant of LinuxInsertPos: the Icon line goes in before the Exec line.
RECURSIVE LinuxInsertPosBeforeExec(_, _)
LinuxInsertPosBeforeExec(lines, p) ==
    IF p <= Len(lines) /\ ~StartsWith(lines[p], <<"[">>)
    THEN IF StartsWith(lines[p], <<"Exec=">>) THEN p
         ELSE LinuxInsertPosBeforeExec(lines, p + 1)
    ELSE p

\* The while loop of _update_linux_shortcut from line p on (p is insert_pos
\* + 1): the position the Icon line is to take, right after the first Exec=
\* line of the section, or where the section ends when it has none.
RECURSIVE LinuxInsertPos(_, _)
LinuxInsertPos(lines, p) ==
    IF p <= Len(lines) /\ ~StartsWith(lines[p], <<"[">>)
    THEN IF StartsWith(lines[p], <<"Exec=">>) THEN p + 1
         ELSE LinuxInsertPos(lines, p + 1)
    ELSE p

\* The lines _update_linux_shortcut writes for the lines of a matched file.
LinuxShortcutLines(lines, icon_path) ==
    LET i == FirstTrue([k \in 1..Len(lines) |->
                           StartsWith(lines[k], <<"Icon=">>)])
        d == FirstTrue([k \in 1..Len(lines) |->
                           Strip(lines[k]) = <<"[", "Desktop Entry", "]">>])
    IN  IF i # 0
        THEN [lines EXCEPT ![i] = <<"Icon=">> \o PathStr(icon_path)]
        ELSE IF d # 0
        THEN InsertAt(lines, LinuxInsertPos(lines, d + 1),
                      <<"Icon=">> \o PathStr(icon_path))
        ELSE lines

\* What read_text and write_text can do in one update of a shortcut file.
IoOutcomes == {"ok", "read raises", "open raises", "write raises"}

\* _update_windows_shortcut on Windows, _update_linux_shortcut elsewhere, on
\* a file holding bytes: the value returned and the bytes the file holds
\* afterwards.  When read_text or write_text raises, the bare except makes
\* the function return 0; a write_text that raises after opening the file
\* leaves it truncated.
ShortcutFileUpdate(plat, bytes, appid, icon_path, io) ==
    LET content == ReadText(bytes)
        matched == MatchesAny(content, SteamUrlPatterns(appid))
        lines == IF plat = "Windows"
                 THEN WindowsShortcutLines(Split(content), icon_path)
                 ELSE LinuxShortcutLines(Split(content), icon_path)
    IN  IF io = "read raises" \/ ~matched THEN [ret |-> 0, bytes |-> bytes]
        ELSE IF io = "open raises" THEN [ret |-> 0, bytes |-> bytes]
        ELSE IF io = "write raises" THEN [ret |-> 0, bytes |-> <<>>]
        ELSE [ret |-> 1, bytes |-> WriteText(plat, Join(lines))]

\* The bytes of the style icon f, and those of the cache file f before the
\* update: every file has bytes of its own.
IconBytes(f) == <<"icon", f>>

CachedBytes(f) == <<"cached", f>>

\* The regular files under a directory with the given entries, each with its
\* bytes, by path from the directory; the subdirectories are empty.
FilesOf(entries) ==
    [p \in {<<e.name>> : e \in {x \in Range(entries) : x.is_file}} |->
        CachedBytes(p[1])]

\* is_file of the entry called name.
IsFileIn(entries, name) ==
    \E e \in Range(entries) : e.name = name /\ e.is_file

\* shutil.copy(src, lib_dir / dest) on the files of lib_dir: onto the file
\* dest, or, dest being a directory, onto the file called as src inside it.
ShutilCopy(files, entries, src, dest) ==
    LET p == IF IsFileIn(entries, dest) THEN <<dest>> ELSE <<dest, src>>
    IN  [q \in DOMAIN files \cup {p} |->
            IF q = p THEN IconBytes(src) ELSE files[q]]

\* An icons folder: whether it exists, and its regular files, path -> bytes.
NoTree == [exists |-> FALSE, files |-> [p \in {} |-> <<>>]]

\* The files of a tree whose paths are in keep.
Restrict(files, keep) == [p \in DOMAIN files \cap keep |-> files[p]]

\* A mutant of RmTree: the destination is left as it is.
RmTreeKeep(tree) == tree

\* shutil.rmtree(icons_dest) that returns: the folder is gone.
RmTree(tree) == NoTree

\* extract_icons(base_path, destination_path) on the file system fs, which
\* gives the icons folder of each root; dest_root is "base" when both paths
\* name the same directory.  io says which call raises, part which files a
\* call that raises has got to: rmtree has removed those, copytree has copied
\* them.  copytree raises by itself when the source is gone or the
\* destination exists.  The result is the file system afterwards and the
\* tuple returned.
ExtractIcons(fs, dest_root, io, part) ==
    LET Failed(f, msg) ==
            [fs |-> f, ret |-> [success |-> FALSE, message |-> msg, file_count |-> 0]]
        removed ==
            IF fs[dest_root].exists
            THEN [fs EXCEPT ![dest_root] = RmTree(fs[dest_root])]
            ELSE fs
        source == removed["base"]
        copied == [removed EXCEPT ![dest_root] = [exists |-> TRUE, files |-> source.files]]
    IN  IF ~fs["base"].exists THEN Failed(fs, "Icons folder not found!")
        ELSE IF fs[dest_root].exists /\ io = "rmtree raises"
        THEN Failed([fs EXCEPT ![dest_root].files =
                         Restrict(fs[dest_root].files, DOMAIN fs[dest_root].files \ part)],
                    "Extract failed")
        ELSE IF ~source.exists \/ removed[dest_root].exists
        THEN Failed(removed, "Extract failed")
        ELSE IF io = "copytree raises"
        THEN Failed([removed EXCEPT ![dest_root] =
                         [exists |-> TRUE, files |-> Restrict(source.files, part)]],
                    "Extract failed")
        ELSE [fs |-> copied,
              ret |-> [success |-> TRUE, message |-> "Icons extracted!",
                       file_count |-> Cardinality(DOMAIN copied[dest_root].files)]]

\* The test of the scan of a desktop directory: a regular file whose
\* lowercased suffix is .url on Windows, .desktop elsewhere.
IsShortcutFile(plat, e) ==
    /\ e.is_file
    /\ Lower(Suffix(e.name)) = IF plat = "Windows" THEN "url" ELSE "desktop"

\* The inner loop of _update_desktop_shortcuts from entry k of a desktop
\* directory on: the number added to shortcuts_updated and the entries
\* afterwards.  io gives, by file name, what reading and writing it does.
RECURSIVE UpdateShortcutFiles(_, _, _, _, _, _)
UpdateShortcutFiles(plat, files, k, appid, icon_path, io) ==
    IF k > Len(files) THEN [count |-> 0, files |-> files]
    ELSE LET e == files[k]
             r == IF IsShortcutFile(plat, e)
                  THEN ShortcutFileUpdate(plat, e.bytes, appid, icon_path, io[e.name])
                  ELSE [ret |-> 0, bytes |-> e.bytes]
             rest == UpdateShortcutFiles(plat, [files EXCEPT ![k].bytes = r.bytes],
                                         k + 1, appid, icon_path, io)
         IN  [count |-> r.ret + rest.count, files |-> rest.files]

\* The outer loop of _update_desktop_shortcuts from directory i on; a
\* directory that does not exist is skipped.
RECURSIVE UpdateDesktopDirs(_, _, _, _, _, _)
UpdateDesktopDirs(plat, dirs, i, appid, icon_path, io) ==
    IF i > Len(dirs) THEN [count |-> 0, dirs |-> dirs]
    ELSE LET r == IF dirs[i].exists
                  THEN UpdateShortcutFiles(plat, dirs[i].files, 1, appid, icon_path, io)
                  ELSE [count |-> 0, files |-> dirs[i].files]
             rest == UpdateDesktopDirs(plat, [dirs EXCEPT ![i].files = r.files],
                                       i + 1, appid, icon_path, io)
         IN  [count |-> r.count + rest.count, dirs |-> rest.dirs]

\* _update_desktop_shortcuts(appid, applied_files) on the desktop
\* directories dirs: the count returned and the directories afterwards.
DesktopShortcuts(plat, dirs, appid, applied, io) ==
    IF ShortcutIconPath(plat, applied) = NoFile
    THEN [count |-> 0, dirs |-> dirs]
    ELSE UpdateDesktopDirs(plat, dirs, 1, appid,
                           ShortcutIconPath(plat, applied), io)

\* ------------------------------------------------------------ state
VARIABLES
    dt_appid,           \* desktop shortcuts: the appid argument
    dt_applied,         \* desktop shortcuts: the applied_files argument
    dt_dirs,            \* the desktop directories: [exists, files], files the
                        \* entries [name, is_file, bytes] as iterdir yields them
    dt_before,          \* dt_dirs before the call
    dt_ret,             \* the count returned
    dt_pc,              \* "call" before the call, "ret" after it
    current_style,      \* model.current_style: the index of the style selected
    styles_used,        \* history: the styles whose directory the batch has read
    ex_dest_root,       \* extract: "base" when destination_path is base_path
    ex_fs,              \* the icons folder of each root: [exists, files]
    ex_before,          \* ex_fs before the call
    ex_io,              \* history: the call that raised, "ok" when none did
    ex_ret,             \* the tuple extract_icons returned
    ex_pc,              \* "call" before the call, "ret" after it
    lc_icon_files,      \* library cache update: the icon_files argument
    lc_is_dir,          \* lib_dir.is_dir()
    lc_entries,         \* the entries of lib_dir, as iterdir yields them
    lc_files,           \* the regular files under lib_dir: path -> bytes
    lc_ret,             \* "none", "true", "false" or "raised"
    lc_pc,              \* "call" before the call, "ret" after it
    sc_appid,           \* shortcut update: the appid the patterns are built from
    sc_icon_path,       \* shortcut update: the icon_path argument
    sc_before,          \* the bytes of the shortcut file before the call
    sc_bytes,           \* the bytes of the shortcut file
    sc_ret,             \* the value the update returned
    sc_pc,              \* "call" before the call, "ret" after it
    selected_games,     \* apply: the selected_games argument
    remaining,          \* apply: the ids the for loop has not yet reached
    results,            \* apply: the results list
    apply_pc,           \* apply: "loop", "copy", "lib", "shortcuts", "done",
                        \*        "raised" (an exception left the function)
    game_id,            \* apply: the id of the current iteration, 0 before
    icon_files,         \* apply: the icons found for the current game
    matching_pairs,     \* apply: the pairs of the current game
    pair_index,         \* apply: the pair the copy loop is at
    applied_count,      \* apply: applied_count
    applied_files,      \* apply: applied_files, extension -> destination
    target_content,     \* the current game's target directory: for each target
                        \* copied onto, the icon whose bytes it holds
    copy_log,           \* history: the copies attempted for the current game
    results_mark,       \* history: Len(results) when the current game began
    lib_result,         \* history: "none", "false", "true" or "raised"
    lib_written,        \* the copy the library update made: [src, dest]
    sc_result,          \* history: "none", "returned" or "raised"
    platform,           \* platform.system(): "Windows" or "Linux"
    find_dir,           \* find_*: the directory searched
    find_op,            \* which function was called: "icons" or "targets"
    find_name,          \* find_icon_files: the game_name argument
    find_exts,          \* find_target_files: the extensions argument
    find_ret,           \* find_*: the returned list
    find_pc,            \* "call" before the call, "ret" after it
    arg_icon_files,     \* get_matching_pairs: the icon_files argument
    arg_target_files,   \* get_matching_pairs: the target_files argument
    ret_pairs,          \* get_matching_pairs: the returned pairs
    match_pc            \* "call" before the call, "ret" after it

matchVars == <<arg_icon_files, arg_target_files, ret_pairs, match_pc>>

findVars == <<find_dir, find_op, find_name, find_exts, find_ret, find_pc>>

applyVars == <<selected_games, remaining, results, apply_pc, game_id,
               icon_files, matching_pairs, pair_index, applied_count,
               applied_files, target_content, copy_log, results_mark,
               lib_result, lib_written, sc_result>>

shortcutVars == <<sc_appid, sc_icon_path, sc_before, sc_bytes, sc_ret, sc_pc>>

cacheVars == <<lc_icon_files, lc_is_dir, lc_entries, lc_files, lc_ret, lc_pc>>

extractVars == <<ex_dest_root, ex_fs, ex_before, ex_io, ex_ret, ex_pc>>

styleVars == <<current_style, styles_used>>

desktopVars == <<dt_appid, dt_applied, dt_dirs, dt_before, dt_ret, dt_pc>>

vars == <<platform, matchVars, findVars, applyVars, shortcutVars, cacheVars, extractVars, styleVars, desktopVars>>

Platforms == {"Windows", "Linux"}

CacheIdle ==
    /\ lc_icon_files = <<>>
    /\ lc_is_dir = FALSE
    /\ lc_entries = <<>>
    /\ lc_files = FilesOf(<<>>)
    /\ lc_ret = "none"
    /\ lc_pc = "idle"

ExtractIdle ==
    /\ ex_dest_root = "base"
    /\ ex_fs = [r \in {"base", "dest"} |-> NoTree]
    /\ ex_before = ex_fs
    /\ ex_io = "ok"
    /\ ex_ret = [success |-> FALSE, message |-> "", file_count |-> 0]
    /\ ex_pc = "idle"

StyleIdle ==
    /\ current_style = 1
    /\ styles_used = {}

DesktopIdle ==
    /\ dt_appid = 0
    /\ dt_applied = [x \in {} |-> NoFile]
    /\ dt_dirs = <<>>
    /\ dt_before = <<>>
    /\ dt_ret = 0
    /\ dt_pc = "idle"

\* --------------------------------------- specification: get_matching_pairs
MatchIconNames ==
    { <<"a", "ico">>, <<"a", "ICO">>, <<"a", "jpg">>, <<"a", "tar", "ico">>,
      <<"a">> }

MatchTargetNames ==
    { <<"b", "ico">>, <<"c", "ico">>, <<"b", "jpg">>, <<"c", "jpg">>,
      <<"b", "ICO">> }

MatchIdle ==
    /\ arg_icon_files = <<>>
    /\ arg_target_files = <<>>
    /\ ret_pairs = <<>>
    /\ match_pc = "idle"

\* The function with the empty domain: the empty dict.
EmptyDict == [x \in {} |-> NoFile]

NoCopy == [src |-> NoFile, dest |-> NoFile]

\* The state of one iteration of the for loop before it found anything.
GameIdle ==
    /\ icon_files = <<>>
    /\ matching_pairs = <<>>
    /\ pair_index = 1
    /\ applied_count = 0
    /\ applied_files = EmptyDict
    /\ target_content = EmptyDict
    /\ copy_log = <<>>
    /\ lib_result = "none"
    /\ lib_written = NoCopy
    /\ sc_result = "none"

ApplyIdle ==
    /\ selected_games = {}
    /\ remaining = {}
    /\ results = <<>>
    /\ apply_pc = "idle"
    /\ game_id = 0
    /\ results_mark = 0
    /\ GameIdle

ShortcutIdle ==
    /\ sc_appid = 0
    /\ sc_icon_path = NoFile
    /\ sc_before = <<>>
    /\ sc_bytes = <<>>
    /\ sc_ret = 0
    /\ sc_pc = "idle"

FindIdle ==
    /\ find_dir = <<>>
    /\ find_op = "none"
    /\ find_name = <<>>
    /\ find_exts = {}
    /\ find_ret = <<>>
    /\ find_pc = "idle"

MatchInit ==
    /\ platform \in Platforms
    /\ DesktopIdle
    /\ StyleIdle
    /\ ExtractIdle
    /\ CacheIdle
    /\ FindIdle
    /\ ApplyIdle
    /\ ShortcutIdle
    /\ arg_icon_files \in DistinctSeqs(MatchIconNames, MaxIcons)
    /\ arg_target_files \in DistinctSeqs(MatchTargetNames, MaxTargets)
    /\ ret_pairs = <<>>
    /\ match_pc = "call"

CallGetMatchingPairs ==
    /\ match_pc = "call"
    /\ ret_pairs' = GetMatchingPairs(arg_icon_files, arg_target_files)
    /\ match_pc' = "ret"
    /\ UNCHANGED <<arg_icon_files, arg_target_files>>
    /\ UNCHANGED <<platform, findVars, applyVars, shortcutVars, cacheVars, extractVars, styleVars, desktopVars>>

SpecMatch == MatchInit /\ [][CallGetMatchingPairs]_vars

Min(S) == CHOOSE x \in S : \A y \in S : x <= y

\* The position of x in a sequence without repeated elements.
PosIn(s, x) == CHOOSE p \in 1..Len(s) : s[p] = x

\* The lowercased file-types that occur among the icons and among the targets.
SharedTypes(icons, targets) ==
    {Ext(f) : f \in Range(icons)} \cap {Ext(t) : t \in Range(targets)}

\* C2: the pairs returned by get_matching_pairs for distinct target files
\* never hold the same target twice.
C2_NoTargetReused ==
    match_pc = "ret" =>
        \A i, j \in 1..Len(ret_pairs) :
            i # j => ret_pairs[i][2] # ret_pairs[j][2]

\* Two icons of one file-type were paired with two different targets.
C2_Witness ==
    /\ match_pc = "ret"
    /\ Len(ret_pairs) = 2
    /\ Ext(ret_pairs[1][1]) = Ext(ret_pairs[2][1])
    /\ ret_pairs[1][2] # ret_pairs[2][2]

\* C3 as stated: the number of pairs is at most the number of distinct
\* lowercased file-types shared by the icons and the targets.
C3_AtMostSharedTypes ==
    match_pc = "ret" =>
        Len(ret_pairs) <= Cardinality(SharedTypes(arg_icon_files, arg_target_files))

\* C3 amended: the number of pairs is at most the number of icons and at
\* most the number of targets; it is at most the number of shared file-types
\* when no two icons have the same lowercased file-type.
C3_AtMostMinIconsTargets ==
    match_pc = "ret" =>
        /\ Len(ret_pairs) <= Len(arg_icon_files)
        /\ Len(ret_pairs) <= Len(arg_target_files)
        /\ (\A i, j \in 1..Len(arg_icon_files) :
                i # j => Ext(arg_icon_files[i]) # Ext(arg_icon_files[j]))
            => Len(ret_pairs)
                 <= Cardinality(SharedTypes(arg_icon_files, arg_target_files))

\* Icons a.ico and a.ICO share the one file-type ico and got two pairs.
C3_Witness ==
    /\ match_pc = "ret"
    /\ arg_icon_files = << <<"a", "ico">>, <<"a", "ICO">> >>
    /\ Range(arg_target_files) = { <<"b", "ico">>, <<"c", "ico">> }
    /\ Len(ret_pairs) = 2

\* The targets consumed by the icons before position i of the icon list.
UsedBefore(i) ==
    {ret_pairs[k][2] : k \in {k \in 1..Len(ret_pairs) :
                                  PosIn(arg_icon_files, ret_pairs[k][1]) < i}}

\* The positions of the targets of icon i's file-type no earlier icon consumed.
FreeFor(i) ==
    {p \in 1..Len(arg_target_files) :
        /\ Ext(arg_target_files[p]) = Ext(arg_icon_files[i])
        /\ arg_target_files[p] \notin UsedBefore(i)}

\* C4: icons are processed in list order, each paired with the earliest
\* target of its lowercased file-type that no earlier icon consumed, and the
\* pairs are returned in icon order; [a.ico, a.jpg] against
\* [b.ico, b.jpg, c.jpg] gives (a.ico, b.ico), (a.jpg, b.jpg).
C4_EarliestFreeTargetInIconOrder ==
    match_pc = "ret" =>
        /\ \A k \in 1..Len(ret_pairs) : ret_pairs[k][1] \in Range(arg_icon_files)
        /\ \A k, l \in 1..Len(ret_pairs) :
               k < l => PosIn(arg_icon_files, ret_pairs[k][1])
                          < PosIn(arg_icon_files, ret_pairs[l][1])
        /\ \A i \in 1..Len(arg_icon_files) :
               IF FreeFor(i) = {}
               THEN \A k \in 1..Len(ret_pairs) : ret_pairs[k][1] # arg_icon_files[i]
               ELSE \E k \in 1..Len(ret_pairs) :
                       ret_pairs[k] = <<arg_icon_files[i],
                                        arg_target_files[Min(FreeFor(i))]>>
        /\ (/\ arg_icon_files = << <<"a", "ico">>, <<"a", "jpg">> >>
            /\ arg_target_files = << <<"b", "ico">>, <<"b", "jpg">>, <<"c", "jpg">> >>)
            => ret_pairs = << << <<"a", "ico">>, <<"b", "ico">> >>,
                              << <<"a", "jpg">>, <<"b", "jpg">> >> >>

\* The example of the claim: c.jpg is left unused.
C4_Witness ==
    /\ match_pc = "ret"
    /\ arg_icon_files = << <<"a", "ico">>, <<"a", "jpg">> >>
    /\ arg_target_files = << <<"b", "ico">>, <<"b", "jpg">>, <<"c", "jpg">> >>
    /\ Len(ret_pairs) = 2
    /\ \A k \in 1..2 : ret_pairs[k][2] # <<"c", "jpg">>


\* ------------------------- specification: find_icon_files, find_target_files
FindNames ==
    { <<"a", "ico">>, <<"a", "ICO">>, <<"A", "ico">>, <<"a", "jpg">>,
      <<"a", "tar", "gz">>, <<"a">>, <<"b", "ico">>, <<"game", "ICO">> }

FindGameNames == { <<"a">>, <<"b">> }

\* The lowercased extensions apply can pass to find_target_files.
FindExtensions == {"ico", "jpg", "gz"}

FindInit ==
    /\ platform \in Platforms
    /\ DesktopIdle
    /\ StyleIdle
    /\ ExtractIdle
    /\ CacheIdle
    /\ MatchIdle
    /\ ApplyIdle
    /\ ShortcutIdle
    /\ find_dir \in {d \in DistinctSeqs([name : FindNames, is_file : BOOLEAN],
                                         MaxEntries) : IsDirectory(platform, d)}
    /\ find_op = "none"
    /\ find_name = <<>>
    /\ find_exts = {}
    /\ find_ret = <<>>
    /\ find_pc = "call"

CallFindIconFiles ==
    /\ find_pc = "call"
    /\ \E game_name \in FindGameNames :
        /\ find_name' = game_name
        /\ find_ret' = FindIconFiles(platform, game_name, find_dir)
    /\ find_op' = "icons"
    /\ find_pc' = "ret"
    /\ UNCHANGED <<find_dir, find_exts>>
    /\ UNCHANGED <<platform, matchVars, applyVars, shortcutVars, cacheVars, extractVars, styleVars, desktopVars>>

CallFindTargetFiles ==
    /\ find_pc = "call"
    /\ \E extensions \in SUBSET FindExtensions :
        \E ext_order \in Orders(extensions) :
            /\ find_exts' = extensions
            /\ find_ret' = FindTargetFiles(platform, find_dir, ext_order)
    /\ find_op' = "targets"
    /\ find_pc' = "ret"
    /\ UNCHANGED <<find_dir, find_name>>
    /\ UNCHANGED <<platform, matchVars, applyVars, shortcutVars, cacheVars, extractVars, styleVars, desktopVars>>

FindNext == CallFindIconFiles \/ CallFindTargetFiles

SpecFind == FindInit /\ [][FindNext]_vars

\* The names of the regular files of a directory.
RegularFiles(entries) ==
    {entries[i].name : i \in {i \in 1..Len(entries) : entries[i].is_file}}

\* Whether the stem of f is game_name, under the platform's comparison of
\* file names.
StemIs(plat, f, game_name) ==
    /\ Len(Stem(f)) = Len(game_name)
    /\ \A i \in 1..Len(game_name) : CompEq(plat, Stem(f)[i], game_name[i])

\* C5: find_icon_files returns exactly the regular files <stem>.<ext> of
\* style_dir whose stem equals game_name: every such file, and no file of
\* another stem (a.tar.gz has the stem a.tar and is not returned for a).
C5_ExactlyFilesWithStem ==
    (find_pc = "ret" /\ find_op = "icons") =>
        Range(find_ret) = {f \in RegularFiles(find_dir) :
                              Len(f) > 1 /\ StemIs(platform, f, find_name)}

\* C6: find_target_files, given lowercased file-types, returns every file of
\* the directory whose lowercased file-type is among them, on every platform.
C6_EveryFileOfTypeCaseInsensitive ==
    (find_pc = "ret" /\ find_op = "targets") =>
        {f \in RegularFiles(find_dir) : Ext(f) \in find_exts} \subseteq Range(find_ret)

\* ------------------------------------ specification: apply_icons_to_games
\* The ids a caller can select: the configured games and one unknown id.
SelectableIds == {1, 2, 3}

ApplyStyleNames ==
    { <<"a", "ico">>, <<"a", "jpg">>, <<"b", "ico">>, <<"b", "jpg">> }

ApplyTargetNames == { <<"t", "ico">>, <<"t", "jpg">>, <<"u", "jpg">> }

LibraryNames == { <<"hash", "jpg">>, <<"hdr", "JPEG">>, <<"logo", "png">> }

\* The directories of regular files with names in Names.
Dirs(plat, Names) ==
    {d \in DistinctSeqs([name : Names, is_file : {TRUE}], MaxEntries) :
        IsDirectory(plat, d)}

\* Lines 135-154 of one iteration on a style directory and a target
\* directory that exist: the icons found, the pairs matched, and the message
\* of the failure outcome when the iteration skips the game ("" when it goes
\* on to the copy loop), for every iteration order of the extensions set.
GameScan(plat, game_name, style_dir, target_dir) ==
    LET icons == FindIconFiles(plat, game_name, style_dir)
        icon_extensions == {Ext(f) : f \in Range(icons)}
    IN  { LET targets == FindTargetFiles(plat, target_dir, ext_order)
              pairs == GetMatchingPairs(icons, targets)
          IN  [skip |-> IF icons = <<>> THEN "No icon files found"
                        ELSE IF targets = <<>>
                             THEN "No matching target files found"
                        ELSE IF pairs = <<>>
                             THEN "No matching file pairs found"
                        ELSE "",
               icons |-> icons,
               pairs |-> pairs]
          : ext_order \in Orders(icon_extensions) }

\* What an iteration can find for each configured game on each platform,
\* over the states its two directories can be in.
GameScans ==
    [plat \in Platforms, g \in DOMAIN GAME_MAPPING |->
        UNION { GameScan(plat, GAME_MAPPING[g].name, style_dir, target_dir) :
                  style_dir \in Dirs(plat, ApplyStyleNames),
                  target_dir \in Dirs(plat, ApplyTargetNames) }]

\* The states the library cache directory of a game can be found in.
LibraryStates ==
    [is_dir : BOOLEAN, files : DistinctSeqs(LibraryNames, MaxEntries)]

ApplyInit ==
    /\ platform \in Platforms
    /\ DesktopIdle
    /\ StyleIdle
    /\ ExtractIdle
    /\ CacheIdle
    /\ MatchIdle
    /\ FindIdle
    /\ ShortcutIdle
    /\ selected_games \in SUBSET SelectableIds
    /\ remaining = selected_games
    /\ results = <<>>
    /\ apply_pc = "loop"
    /\ game_id = 0
    /\ results_mark = 0
    /\ GameIdle

\* One iteration of the for loop up to the copy loop: the lookup of the game,
\* the two directory checks, find_icon_files, find_target_files and
\* get_matching_pairs.  The ids of the set come in any order; the
\* directories are found in any state.
\* model.current_style is read once in every iteration; the directory of
\* that style is read when the target directory exists and it is a directory.
ProcessGame ==
    /\ apply_pc = "loop"
    /\ \E g \in remaining :
        /\ game_id' = g
        /\ remaining' = remaining \ {g}
        /\ results_mark' = Len(results)
        /\ pair_index' = 1
        /\ applied_count' = 0
        /\ applied_files' = EmptyDict
        /\ target_content' = EmptyDict
        /\ copy_log' = <<>>
        /\ lib_result' = "none"
        /\ lib_written' = NoCopy
        /\ sc_result' = "none"
        /\ IF g \notin DOMAIN GAME_MAPPING
           THEN \* game_mapping[game_id] raises KeyError; nothing catches it
                /\ apply_pc' = "raised"
                /\ UNCHANGED results
                /\ icon_files' = <<>>
                /\ matching_pairs' = <<>>
                /\ UNCHANGED styles_used
           ELSE \E target_is_dir, style_is_dir \in BOOLEAN,
                   scan \in GameScans[platform, g] :
                LET skip == IF ~target_is_dir THEN "folder missing"
                            ELSE IF ~style_is_dir THEN "Style folder missing"
                            ELSE scan.skip
                IN  /\ styles_used' = IF target_is_dir /\ style_is_dir
                                       THEN styles_used \cup {current_style}
                                       ELSE styles_used
                    /\ IF skip # ""
                       THEN /\ results' = Append(results, Failure(g, skip))
                            /\ apply_pc' = "loop"
                            /\ icon_files' = <<>>
                            /\ matching_pairs' = <<>>
                       ELSE /\ UNCHANGED results
                            /\ apply_pc' = "copy"
                            /\ icon_files' = scan.icons
                            /\ matching_pairs' = scan.pairs
    /\ UNCHANGED <<selected_games, current_style>>
    /\ UNCHANGED <<platform, matchVars, findVars, shortcutVars, cacheVars, extractVars, desktopVars>>

\* One pass of the copy loop: shutil.copy(src, dest) succeeds or raises.
CopyPair ==
    /\ apply_pc = "copy"
    /\ pair_index <= Len(matching_pairs)
    /\ LET src == matching_pairs[pair_index][1]
           dest == matching_pairs[pair_index][2]
       IN  \E ok \in BOOLEAN :
           /\ copy_log' = Append(copy_log, [src |-> src, dest |-> dest, ok |-> ok])
           /\ IF ok
              THEN /\ applied_count' = applied_count + 1
                   /\ applied_files' =
                        [e \in DOMAIN applied_files \cup {Ext(dest)} |->
                            IF e = Ext(dest) THEN dest ELSE applied_files[e]]
                   /\ target_content' =
                        [t \in DOMAIN target_content \cup {dest} |->
                            IF t = dest THEN src ELSE target_content[t]]
                   /\ pair_index' = pair_index + 1
                   /\ UNCHANGED results
              ELSE /\ results' = Append(results,
                        Outcome(game_id, FALSE, "Failed to copy", 0, src, dest))
                   /\ pair_index' =
                        IndexAfterFailedCopy(pair_index, Len(matching_pairs))
                   /\ UNCHANGED <<applied_count, applied_files, target_content>>
    /\ UNCHANGED <<selected_games, remaining, apply_pc, game_id, icon_files,
                   matching_pairs, results_mark, lib_result, lib_written,
                   sc_result>>
    /\ UNCHANGED <<platform, matchVars, findVars, shortcutVars, cacheVars, extractVars, styleVars, desktopVars>>

\* The end of the copy loop: the success outcome when a pair was copied.
EndCopy ==
    /\ apply_pc = "copy"
    /\ pair_index > Len(matching_pairs)
    /\ IF applied_count > 0
       THEN /\ results' = Append(results,
                 Outcome(game_id, TRUE, "Applied", applied_count, NoFile, NoFile))
            /\ apply_pc' = "lib"
       ELSE /\ UNCHANGED results
            /\ apply_pc' = "loop"
    /\ UNCHANGED <<selected_games, remaining, game_id, icon_files,
                   matching_pairs, pair_index, applied_count, applied_files,
                   target_content, copy_log, results_mark, lib_result,
                   lib_written, sc_result>>
    /\ UNCHANGED <<platform, matchVars, findVars, shortcutVars, cacheVars, extractVars, styleVars, desktopVars>>

\* The try block around _update_library_cache(appid, icon_files): iterdir or
\* the copy can raise; the except clause appends the failure outcome.
UpdateLibraryCache ==
    /\ apply_pc = "lib"
    /\ \E found \in {[is_dir |-> lib.is_dir, copy |-> LibraryCopy(icon_files, lib)] :
                        lib \in LibraryStates},
          raises \in {"no", "iterdir", "copy"} :
        LET c == found.copy
            raised == raises # "no"
        IN  /\ raises = "iterdir" => found.is_dir
            /\ raises = "copy" => c.src # NoFile
            /\ IF raised
               THEN /\ results' = Append(results,
                         Failure(game_id, "Failed library icon"))
                    /\ lib_result' = "raised"
                    /\ lib_written' = NoCopy
               ELSE IF c.src = NoFile
               THEN /\ UNCHANGED results
                    /\ lib_result' = "false"
                    /\ lib_written' = NoCopy
               ELSE /\ results' = Append(results,
                         Outcome(game_id, TRUE, "library icon applied", 0,
                                 NoFile, NoFile))
                    /\ lib_result' = "true"
                    /\ lib_written' = c
            /\ apply_pc' = PcAfterLibrary(raised)
    /\ UNCHANGED <<selected_games, remaining, game_id, icon_files,
                   matching_pairs, pair_index, applied_count, applied_files,
                   target_content, copy_log, results_mark, sc_result>>
    /\ UNCHANGED <<platform, matchVars, findVars, shortcutVars, cacheVars, extractVars, styleVars, desktopVars>>

\* The try block around _update_desktop_shortcuts(appid, applied_files): the
\* scan of the desktop raises (Path.home, iterdir) or returns the number of
\* shortcut files it updated, 0 when no suitable icon was applied.
UpdateDesktopShortcuts ==
    /\ apply_pc = "shortcuts"
    /\ \E raised \in BOOLEAN, shortcuts_count \in 0..MaxShortcuts :
        /\ raised => shortcuts_count = 0
        /\ ShortcutIconPath(platform, applied_files) = NoFile => shortcuts_count = 0
        /\ IF raised
           THEN /\ results' = Append(results,
                     Failure(game_id, "Failed desktop shortcuts"))
                /\ sc_result' = "raised"
           ELSE /\ results' =
                     IF shortcuts_count > 0
                     THEN Append(results,
                              Outcome(game_id, TRUE, "Updated shortcuts",
                                      shortcuts_count, NoFile, NoFile))
                     ELSE results
                /\ sc_result' = "returned"
    /\ apply_pc' = "loop"
    /\ UNCHANGED <<selected_games, remaining, game_id, icon_files,
                   matching_pairs, pair_index, applied_count, applied_files,
                   target_content, copy_log, results_mark, lib_result,
                   lib_written>>
    /\ UNCHANGED <<platform, matchVars, findVars, shortcutVars, cacheVars, extractVars, styleVars, desktopVars>>

\* return results
ReturnResults ==
    /\ apply_pc = "loop"
    /\ remaining = {}
    /\ apply_pc' = "done"
    /\ UNCHANGED <<selected_games, remaining, results, game_id, icon_files,
                   matching_pairs, pair_index, applied_count, applied_files,
                   target_content, copy_log, results_mark, lib_result,
                   lib_written, sc_result>>
    /\ UNCHANGED <<platform, matchVars, findVars, shortcutVars, cacheVars, extractVars, styleVars, desktopVars>>

ApplyNext ==
    \/ ProcessGame
    \/ CopyPair
    \/ EndCopy
    \/ UpdateLibraryCache
    \/ UpdateDesktopShortcuts
    \/ ReturnResults

SpecApply == ApplyInit /\ [][ApplyNext]_vars

\* The outcomes the current iteration has appended, in order.
GameOutcomes == SubSeq(results, results_mark + 1, Len(results))

\* The copy-failure outcomes of the current game.
CopyFailures == SelectSeq(GameOutcomes, LAMBDA o : o.kind = "Failed to copy")

\* The copy loop of the current game has ended.
CopyLoopEnded ==
    \/ apply_pc \in {"lib", "shortcuts"}
    \/ apply_pc \in {"loop", "done"} /\ matching_pairs # <<>>

\* The current game had a pair copied and its iteration has ended.
AppliedGameEnded == apply_pc \in {"loop", "done"} /\ applied_count > 0

\* C1: a selected id absent from the game mapping never aborts the batch:
\* the call returns, with exactly one outcome, a failure, for that id.
C1_UnknownIdOneFailureNoAbort ==
    /\ apply_pc # "raised"
    /\ apply_pc = "done" =>
          \A g \in selected_games \ DOMAIN GAME_MAPPING :
              /\ Cardinality({i \in 1..Len(results) : results[i].id = g}) = 1
              /\ \A i \in 1..Len(results) :
                     results[i].id = g => ~results[i].success

\* C7: the image written to the library cache is one of the icons whose
\* copy onto its target succeeded in this run; without an applied
\* JPEG-family icon nothing is written.
C7_ThumbnailFromAppliedIcon ==
    lib_written.src # NoFile =>
        \E i \in 1..Len(copy_log) :
            copy_log[i].ok /\ copy_log[i].src = lib_written.src

\* C8: every matched pair is attempted exactly once, in pair order, whatever
\* earlier copies did; each failed copy appends exactly one failure outcome
\* for its pair; the copy failures plus the count of the success outcome
\* make the number of matched pairs.
C8_EveryPairAttemptedOnce ==
    /\ Len(copy_log) <= Len(matching_pairs)
    /\ \A i \in 1..Len(copy_log) :
           <<copy_log[i].src, copy_log[i].dest>> = matching_pairs[i]
    /\ [i \in 1..Len(CopyFailures) |->
            <<CopyFailures[i].src, CopyFailures[i].dest>>]
         = [i \in 1..Len(SelectSeq(copy_log, LAMBDA c : ~c.ok)) |->
            <<SelectSeq(copy_log, LAMBDA c : ~c.ok)[i].src,
              SelectSeq(copy_log, LAMBDA c : ~c.ok)[i].dest>>]
    /\ CopyLoopEnded =>
          /\ Len(copy_log) = Len(matching_pairs)
          /\ Len(CopyFailures) + applied_count = Len(matching_pairs)
          /\ applied_count > 0 =>
                LET o == GameOutcomes[Len(CopyFailures) + 1]
                IN  o.kind = "Applied" /\ o.success /\ o.count = applied_count
          /\ applied_count = 0 =>
                \A i \in 1..Len(GameOutcomes) : GameOutcomes[i].kind # "Applied"

\* The first of two pairs failed to copy and the second was copied.
C8_Witness ==
    /\ apply_pc = "lib"
    /\ Len(matching_pairs) = 2
    /\ ~copy_log[1].ok
    /\ copy_log[2].ok
    /\ applied_count = 1

\* The kinds of the outcomes a finished library update leaves.
LibraryKinds ==
    CASE lib_result = "true" -> <<"library icon applied">>
      [] lib_result = "raised" -> <<"Failed library icon">>
      [] OTHER -> <<>>

\* The kinds of the outcomes a finished shortcut update leaves.
ShortcutKinds ==
    IF sc_result = "raised" THEN {<<"Failed desktop shortcuts">>}
    ELSE IF sc_result = "returned" THEN {<<>>, <<"Updated shortcuts">>}
    ELSE {<<>>}

\* C9: once a pair was copied, the success outcome with the count comes
\* first, then the library update and the shortcut update are both
\* attempted; an exception in either appends one failure outcome, does not
\* stop the other or the batch, and no copied icon is reverted.
C9_UpdatesIndependentNoRollback ==
    /\ (apply_pc \in {"lib", "shortcuts"} \/ AppliedGameEnded) =>
          \E sk \in ShortcutKinds :
              [i \in 1..(Len(GameOutcomes) - Len(CopyFailures)) |->
                  GameOutcomes[Len(CopyFailures) + i].kind]
                = <<"Applied">> \o LibraryKinds \o sk
    /\ apply_pc = "shortcuts" => lib_result # "none"
    /\ AppliedGameEnded => lib_result # "none" /\ sc_result # "none"
    /\ (lib_result = "raised" \/ sc_result = "raised") => apply_pc # "raised"
    /\ \A i \in 1..Len(copy_log) :
           copy_log[i].ok =>
               /\ copy_log[i].dest \in DOMAIN target_content
               /\ target_content[copy_log[i].dest] = copy_log[i].src

\* Both updates of one game raised, and the batch went on to copy and apply
\* the icons of the next game.
C9_Witness ==
    /\ apply_pc = "lib"
    /\ \E i \in 1..(results_mark - 1) :
         /\ results[i].kind = "Failed library icon"
         /\ results[i + 1].kind = "Failed desktop shortcuts"
         /\ results[i].id # game_id

\* ------- specification: _update_windows_shortcut, _update_linux_shortcut
\* The app ids of the configured games.
AppIds == {GAME_MAPPING[g].appid : g \in DOMAIN GAME_MAPPING}

\* The lines a .url file is made of.
UrlLines ==
    { <<"[InternetShortcut]">>,
      <<"URL=", "steam://rungameid/", "7", "0">>,
      <<"URL=", "steam://rungameid/", "7", "0", "0">>,
      <<"URL=", "\"", "steam://run/", "7", "0", "\"">>,
      <<"URL=", "http://example.org">>,
      <<" ", "URL=", "steam://run/", "7", "0">>,
      <<"IconFile=", "old", ".", "ico">>,
      <<"IconIndex=", "0">>,
      <<>> }

\* The lines a .desktop file is made of.
DesktopLines ==
    { <<"[", "Desktop Entry", "]">>,
      <<"[", "Desktop Action Play", "]">>,
      <<"Name=", "Game">>,
      <<"Exec=", "steam ", "steam://rungameid/", "7", "0">>,
      <<"Exec=", "steam ", "\"", "steam://run/", "7", "0", "0", "\"">>,
      <<"Exec=", "game">>,
      <<"Icon=", "old">>,
      <<>> }

\* The texts of at most MaxLines lines of Lines.
Texts(Lines) == {Join(ls) : ls \in UNION {[1..k -> Lines] : k \in 1..MaxLines}}

\* The desktop holds .url files on Windows and .desktop files elsewhere; the
\* icon is the applied ico on Windows and the applied jpg elsewhere.
ShortcutInit ==
    /\ platform \in Platforms
    /\ DesktopIdle
    /\ StyleIdle
    /\ ExtractIdle
    /\ CacheIdle
    /\ MatchIdle
    /\ FindIdle
    /\ ApplyIdle
    /\ sc_appid \in AppIds
    /\ sc_icon_path = IF platform = "Windows" THEN <<"t", "ico">> ELSE <<"t", "jpg">>
    /\ \E text \in Texts(IF platform = "Windows" THEN UrlLines ELSE DesktopLines),
          newline \in {"\n", "\r\n"} :
           sc_before = [i \in 1..Len(text) |->
                           IF text[i] = "\n" THEN newline ELSE text[i]]
    /\ sc_bytes = sc_before
    /\ sc_ret = 0
    /\ sc_pc = "call"

\* _update_windows_shortcut(shortcut_file, steam_patterns, icon_path), called
\* on Windows for a .url file of the desktop.  read_text or write_text can
\* raise; the bare except then makes the function return 0.  A write_text
\* that raises leaves the file as it was or truncated.
UpdateWindowsShortcut ==
    /\ sc_pc = "call"
    /\ platform = "Windows"
    /\ \E io \in IoOutcomes :
        LET r == ShortcutFileUpdate(platform, sc_bytes, sc_appid, sc_icon_path, io)
        IN  sc_ret' = r.ret /\ sc_bytes' = r.bytes
    /\ sc_pc' = "ret"
    /\ UNCHANGED <<sc_appid, sc_icon_path, sc_before>>
    /\ UNCHANGED <<platform, matchVars, findVars, applyVars, cacheVars, extractVars, styleVars, desktopVars>>

\* _update_linux_shortcut(shortcut_file, steam_patterns, icon_path), called
\* off Windows for a .desktop file of the desktop.
UpdateLinuxShortcut ==
    /\ sc_pc = "call"
    /\ platform # "Windows"
    /\ \E io \in IoOutcomes :
        LET r == ShortcutFileUpdate(platform, sc_bytes, sc_appid, sc_icon_path, io)
        IN  sc_ret' = r.ret /\ sc_bytes' = r.bytes
    /\ sc_pc' = "ret"
    /\ UNCHANGED <<sc_appid, sc_icon_path, sc_before>>
    /\ UNCHANGED <<platform, matchVars, findVars, applyVars, cacheVars, extractVars, styleVars, desktopVars>>

ShortcutNext == UpdateWindowsShortcut \/ UpdateLinuxShortcut

SpecShortcut == ShortcutInit /\ [][ShortcutNext]_vars

\* The lines of the shortcut file before and after the call, as read_text
\* and split give them.
LinesBefore == Split(ReadText(sc_before))

LinesAfter == Split(ReadText(sc_bytes))

HasLine(lines, prefix) == \E k \in 1..Len(lines) : StartsWith(lines[k], prefix)

\* C10: updating a .url shortcut that references the application and has no
\* IconFile= line puts the line IconFile=<path> right after the URL= line
\* (the first, should there be several) and the line IconIndex=0 right after
\* that; every other line stays, in its order.
C10_UrlInsertAfterUrlLine ==
    (/\ sc_pc = "ret"
     /\ sc_ret = 1
     /\ ~HasLine(LinesBefore, <<"IconFile=">>)
     /\ HasLine(LinesBefore, <<"URL=">>)) =>
        \E j \in 1..Len(LinesBefore) :
            /\ StartsWith(LinesBefore[j], <<"URL=">>)
            /\ \A k \in 1..(j - 1) : ~StartsWith(LinesBefore[k], <<"URL=">>)
            /\ LinesAfter =
                 SubSeq(LinesBefore, 1, j)
                 \o << <<"IconFile=">> \o PathStr(sc_icon_path), <<"IconIndex=", "0">> >>
                 \o SubSeq(LinesBefore, j + 1, Len(LinesBefore))

\* The file [InternetShortcut] / URL=steam://rungameid/70 / (empty line) was
\* updated for app 70.
C10_Witness ==
    /\ sc_pc = "ret"
    /\ sc_ret = 1
    /\ sc_appid = 70
    /\ LinesBefore = << <<"[InternetShortcut]">>,
                        <<"URL=", "steam://rungameid/", "7", "0">>,
                        <<>> >>
    /\ Len(LinesAfter) = 5

\* The new Icon= line of a .desktop file.
NewIconLine == <<"Icon=">> \o PathStr(sc_icon_path)

\* The first [Desktop Entry] line of the file, 0 when it has none.
EntryLine ==
    FirstTrue([k \in 1..Len(LinesBefore) |->
                  Strip(LinesBefore[k]) = <<"[", "Desktop Entry", "]">>])

\* Line k lies in the [Desktop Entry] section: after its header, with no
\* other section header from there to k.
InEntrySection(k) ==
    /\ EntryLine # 0
    /\ EntryLine < k
    /\ \A m \in (EntryLine + 1)..k : ~StartsWith(LinesBefore[m], <<"[">>)

\* C11: updating a matched .desktop shortcut replaces the value of the Icon=
\* line (the first) when there is one; when there is none and the
\* [Desktop Entry] section has an Exec= line, the line Icon=<path> goes in
\* right after that Exec= line (the first of the section), and it never goes
\* into another section; all other lines stay, in their order.
C11_DesktopIconLine ==
    (sc_pc = "ret" /\ sc_ret = 1 /\ platform # "Windows") =>
        /\ HasLine(LinesBefore, <<"Icon=">>) =>
              \E j \in 1..Len(LinesBefore) :
                  /\ StartsWith(LinesBefore[j], <<"Icon=">>)
                  /\ \A k \in 1..(j - 1) : ~StartsWith(LinesBefore[k], <<"Icon=">>)
                  /\ LinesAfter = [LinesBefore EXCEPT ![j] = NewIconLine]
        /\ ~HasLine(LinesBefore, <<"Icon=">>) =>
              /\ \A e \in 1..Len(LinesBefore) :
                    (/\ InEntrySection(e)
                     /\ StartsWith(LinesBefore[e], <<"Exec=">>)
                     /\ \A k \in (EntryLine + 1)..(e - 1) :
                            ~StartsWith(LinesBefore[k], <<"Exec=">>)) =>
                        LinesAfter = SubSeq(LinesBefore, 1, e) \o <<NewIconLine>>
                                     \o SubSeq(LinesBefore, e + 1, Len(LinesBefore))
              /\ \/ LinesAfter = LinesBefore
                 \/ \E p \in 1..Len(LinesBefore) :
                       /\ p = EntryLine \/ InEntrySection(p)
                       /\ LinesAfter = SubSeq(LinesBefore, 1, p) \o <<NewIconLine>>
                                        \o SubSeq(LinesBefore, p + 1, Len(LinesBefore))

\* The file [Desktop Entry] / Exec=steam steam://rungameid/70 / Name=Game was
\* updated for app 70: the Icon line stands between Exec and Name.
C11_Witness ==
    /\ sc_pc = "ret"
    /\ sc_ret = 1
    /\ platform = "Linux"
    /\ sc_appid = 70
    /\ LinesBefore = << <<"[", "Desktop Entry", "]">>,
                        <<"Exec=", "steam ", "steam://rungameid/", "7", "0">>,
                        <<"Name=", "Game">> >>
    /\ LinesAfter[3] = NewIconLine
    /\ LinesAfter[4] = <<"Name=", "Game">>

\* ----------------------------------- specification: _update_library_cache
CacheIconNames == { <<"a", "ico">>, <<"a", "jpg">>, <<"a", "JPEG">> }

\* The cache directory holds files and directories of any name.
CacheDirs(plat) ==
    {d \in DistinctSeqs([name : LibraryNames, is_file : BOOLEAN], MaxEntries) :
        IsDirectory(plat, d)}

CacheInit ==
    /\ platform \in Platforms
    /\ DesktopIdle
    /\ StyleIdle
    /\ ExtractIdle
    /\ MatchIdle
    /\ FindIdle
    /\ ApplyIdle
    /\ ShortcutIdle
    /\ lc_icon_files \in DistinctSeqs(CacheIconNames, MaxIcons)
    /\ lc_is_dir \in BOOLEAN
    /\ lc_entries \in IF lc_is_dir THEN CacheDirs(platform) ELSE {<<>>}
    /\ lc_files = FilesOf(lc_entries)
    /\ lc_ret = "none"
    /\ lc_pc = "call"

\* _update_library_cache(appid, icon_files).  iterdir and shutil.copy can
\* raise; a copy that raises has left the file it opened untouched or empty.
CallUpdateLibraryCache ==
    /\ lc_pc = "call"
    /\ \E io \in {"ok", "iterdir raises", "copy raises"}, opened \in BOOLEAN :
        LET c == LibraryCopy(lc_icon_files,
                     [is_dir |-> lc_is_dir,
                      files |-> [i \in 1..Len(lc_entries) |-> lc_entries[i].name]])
        IN  /\ io = "iterdir raises" => lc_is_dir
            /\ io = "copy raises" => c.src # NoFile
            /\ opened => io = "copy raises" /\ IsFileIn(lc_entries, c.dest)
            /\ IF io = "iterdir raises"
               THEN lc_ret' = "raised" /\ UNCHANGED lc_files
               ELSE IF c.src = NoFile
               THEN lc_ret' = "false" /\ UNCHANGED lc_files
               ELSE IF io = "copy raises"
               THEN /\ lc_ret' = "raised"
                    /\ lc_files' = IF opened
                                   THEN [lc_files EXCEPT ![<<c.dest>>] = <<>>]
                                   ELSE lc_files
               ELSE /\ lc_ret' = "true"
                    /\ lc_files' = ShutilCopy(lc_files, lc_entries, c.src, c.dest)
    /\ lc_pc' = "ret"
    /\ UNCHANGED <<lc_icon_files, lc_is_dir, lc_entries>>
    /\ UNCHANGED <<platform, matchVars, findVars, applyVars, shortcutVars, extractVars, styleVars, desktopVars>>

SpecCache == CacheInit /\ [][CallUpdateLibraryCache]_vars

\* The JPEG-family files the cache directory held before the update.
JpegCacheFiles ==
    {e.name : e \in {x \in Range(lc_entries) : x.is_file /\ IsJpeg(x.name)}}

\* C12: a thumbnail update that returns true leaves the cache directory with
\* the same set of file names as before, and one JPEG-family file it held
\* before now has the bytes of a JPEG icon of icon_files; with no JPEG-family
\* file in the cache directory the update returns false, unless iterdir raised,
\* and writes nothing.
C12_SameNamesJpegOverwritten ==
    lc_pc = "ret" =>
        /\ lc_ret = "true" =>
              /\ DOMAIN lc_files = DOMAIN FilesOf(lc_entries)
              /\ \E d \in JpegCacheFiles, f \in Range(lc_icon_files) :
                    /\ IsJpeg(f)
                    /\ lc_files[<<d>>] = IconBytes(f)
                    /\ \A p \in DOMAIN lc_files :
                          p # <<d>> => lc_files[p] = CachedBytes(p[1])
        /\ JpegCacheFiles = {} =>
              /\ lc_ret \in {"false", "raised"}
              /\ lc_files = FilesOf(lc_entries)

\* ------------------------------------------- specification: extract_icons
\* The files of the bundled icons folder, and those a destination can hold.
SourcePaths == { <<"style1", "a.ico">>, <<"style1", "a.jpg">>, <<"readme">> }

StalePaths == { <<"style1", "a.ico">>, <<"old.ico">> }

\* The icons folders of root with at most MaxEntries files at some of Paths.
Trees(root, Paths) ==
    {[exists |-> TRUE, files |-> [p \in ps |-> <<root, p>>]] :
        ps \in {x \in SUBSET Paths : Cardinality(x) <= MaxEntries}}

ExtractInit ==
    /\ platform \in Platforms
    /\ DesktopIdle
    /\ StyleIdle
    /\ MatchIdle
    /\ FindIdle
    /\ ApplyIdle
    /\ ShortcutIdle
    /\ CacheIdle
    /\ ex_dest_root \in {"base", "dest"}
    /\ \E s \in Trees("base", SourcePaths) \cup {NoTree},
          d \in Trees("dest", StalePaths) \cup {NoTree} :
        /\ ex_dest_root = "base" => d = NoTree
        /\ ex_fs = [r \in {"base", "dest"} |-> IF r = "base" THEN s ELSE d]
    /\ ex_before = ex_fs
    /\ ex_io = "ok"
    /\ ex_ret = [success |-> FALSE, message |-> "", file_count |-> 0]
    /\ ex_pc = "call"

CallExtractIcons ==
    /\ ex_pc = "call"
    /\ \E io \in {"ok", "rmtree raises", "copytree raises"},
          part \in SUBSET (SourcePaths \cup StalePaths) :
        LET r == ExtractIcons(ex_fs, ex_dest_root, io, part)
        IN  /\ io = "ok" => part = {}
            /\ io = "rmtree raises" =>
                  /\ ex_fs["base"].exists
                  /\ ex_fs[ex_dest_root].exists
                  /\ part \subseteq DOMAIN ex_fs[ex_dest_root].files
            /\ io = "copytree raises" =>
                  /\ ex_fs["base"].exists
                  /\ ex_dest_root # "base"
                  /\ part \subseteq DOMAIN ex_fs["base"].files
                  /\ part # DOMAIN ex_fs["base"].files \/ part = {}
            /\ ex_fs' = r.fs
            /\ ex_ret' = r.ret
            /\ ex_io' = io
    /\ ex_pc' = "ret"
    /\ UNCHANGED <<ex_dest_root, ex_before>>
    /\ UNCHANGED <<platform, matchVars, findVars, applyVars, shortcutVars, cacheVars, styleVars, desktopVars>>

SpecExtract == ExtractInit /\ [][CallExtractIcons]_vars

\* C13: extracting a source tree of N regular files into another root, no
\* call raising, leaves exactly the N files under the destination's icons
\* folder and reports file_count = N, whether the destination was absent or
\* held stale files, none of which remain.
C13_ExactlyNFiles ==
    (/\ ex_pc = "ret"
     /\ ex_dest_root # "base"
     /\ ex_before["base"].exists
     /\ ex_io = "ok") =>
        /\ ex_ret.success
        /\ ex_ret.file_count = Cardinality(DOMAIN ex_before["base"].files)
        /\ ex_fs["dest"].exists
        /\ ex_fs["dest"].files = ex_before["base"].files

\* Two source files were extracted over a destination holding two stale
\* files, one of them at the path of a source file.
C13_Witness ==
    /\ ex_pc = "ret"
    /\ ex_dest_root = "dest"
    /\ ex_io = "ok"
    /\ ex_ret.success
    /\ ex_ret.file_count = 2
    /\ DOMAIN ex_before["base"].files = { <<"style1", "a.ico">>, <<"readme">> }
    /\ DOMAIN ex_before["dest"].files = StalePaths

\* C17: extract_icons never removes or changes a file of the source icons
\* folder, whichever the roots, the same root included, and whether it
\* returns success or failure.
C17_SourceUntouched ==
    ex_pc = "ret" => ex_fs["base"] = ex_before["base"]

\* ------------------- specification: apply_icons_to_games and select_style
\* StyleSelectionScreen.select_style on the UI thread, while the batch runs
\* on its worker thread: current_style becomes the index of the button.
SelectStyle ==
    /\ apply_pc \in {"loop", "copy", "lib", "shortcuts"}
    /\ \E idx \in 1..Len(STYLES) : current_style' = idx
    /\ UNCHANGED styles_used
    /\ UNCHANGED <<platform, matchVars, findVars, applyVars, shortcutVars,
                   cacheVars, extractVars, desktopVars>>

ApplyStyleNext == ApplyNext \/ SelectStyle

SpecApplyStyle == ApplyInit /\ [][ApplyStyleNext]_vars

\* C14: every game of one batch reads its icons from the directory of one
\* style, also when the UI thread changes the current style while the batch
\* is running.
C14_OneStylePerBatch == Cardinality(styles_used) <= 1

\* The longest run of digits of text from position i on.
RECURSIVE DigitRun(_, _)
DigitRun(text, i) ==
    IF i <= Len(text) /\ text[i] \in Range(Digit)
    THEN <<text[i]>> \o DigitRun(text, i + 1)
    ELSE <<>>

\* The app ids the launch identifiers of a shortcut text name: the digits
\* after steam://rungameid/ or steam://run/.
LaunchIds(text) ==
    {DigitRun(text, i + 1) :
        i \in {k \in 1..Len(text) : text[k] \in {"steam://rungameid/", "steam://run/"}}}

\* C15: the update of a shortcut file for app id A modifies the file only if
\* one of its launch identifiers names A; a file that names only another id
\* B, also one whose decimal text A's is a proper prefix of, stays as it was.
C15_OnlyOwnAppIdModified ==
    (sc_pc = "ret" /\ sc_bytes # sc_before) =>
        Str(sc_appid) \in LaunchIds(ReadText(sc_before))

\* --------------------------------- specification: _update_desktop_shortcuts
\* The entries a desktop directory can hold: shortcuts of app 70 with a line
\* to put the icon line after, with an icon line, and with neither; a
\* shortcut to something else; a text file; a directory.
DesktopEntries(plat) ==
    IF plat = "Windows"
    THEN { [name |-> <<"a", "url">>, is_file |-> TRUE, bytes |->
               Join(<< <<"[InternetShortcut]">>,
                       <<"URL=", "steam://rungameid/", "7", "0">> >>)],
           [name |-> <<"b", "URL">>, is_file |-> TRUE, bytes |->
               Join(<< <<"URL=", "steam://run/", "7", "0">>,
                       <<"IconFile=", "old", ".", "ico">> >>)],
           [name |-> <<"c", "url">>, is_file |-> TRUE, bytes |->
               Join(<< <<"[InternetShortcut]">>,
                       <<"BASEURL=", "steam://rungameid/", "7", "0">> >>)],
           [name |-> <<"d", "url">>, is_file |-> TRUE, bytes |->
               Join(<< <<"[InternetShortcut]">>,
                       <<"URL=", "http://example.org">> >>)],
           [name |-> <<"e", "txt">>, is_file |-> TRUE, bytes |->
               <<"URL=", "steam://rungameid/", "7", "0">>],
           [name |-> <<"f", "url">>, is_file |-> FALSE, bytes |-> <<>>] }
    ELSE { [name |-> <<"a", "desktop">>, is_file |-> TRUE, bytes |->
               Join(<< <<"[", "Desktop Entry", "]">>,
                       <<"Exec=", "steam ", "steam://rungameid/", "7", "0">> >>)],
           [name |-> <<"b", "DESKTOP">>, is_file |-> TRUE, bytes |->
               Join(<< <<"[", "Desktop Entry", "]">>,
                       <<"Exec=", "steam ", "steam://rungameid/", "7", "0">>,
                       <<"Icon=", "old">> >>)],
           [name |-> <<"c", "desktop">>, is_file |-> TRUE, bytes |->
               <<"Exec=", "steam ", "steam://rungameid/", "7", "0">>],
           [name |-> <<"d", "desktop">>, is_file |-> TRUE, bytes |->
               Join(<< <<"[", "Desktop Entry", "]">>, <<"Exec=", "game">> >>)],
           [name |-> <<"e", "txt">>, is_file |-> TRUE, bytes |->
               <<"Exec=", "steam ", "steam://rungameid/", "7", "0">>],
           [name |-> <<"f", "desktop">>, is_file |-> FALSE, bytes |-> <<>>] }

\* A desktop directory: absent, or holding at most MaxShortcuts entries.
DesktopDirs(plat) ==
    {[exists |-> FALSE, files |-> <<>>]}
    \cup {[exists |-> TRUE, files |-> f] :
             f \in DistinctSeqs(DesktopEntries(plat), MaxShortcuts)}

\* The applied_files dicts apply can pass.
AppliedDicts ==
    { EmptyDict,
      "ico" :> <<"t", "ico">>,
      "jpg" :> <<"t", "jpg">>,
      ("ico" :> <<"t", "ico">>) @@ ("jpg" :> <<"t", "jpg">>) }

\* The desktop of the user and, on Windows, the public desktop.
DesktopInit ==
    /\ platform \in Platforms
    /\ MatchIdle
    /\ FindIdle
    /\ ApplyIdle
    /\ ShortcutIdle
    /\ CacheIdle
    /\ ExtractIdle
    /\ StyleIdle
    /\ dt_appid \in AppIds
    /\ dt_applied \in AppliedDicts
    /\ dt_dirs \in [1..(IF platform = "Windows" THEN 2 ELSE 1) -> DesktopDirs(platform)]
    /\ dt_before = dt_dirs
    /\ dt_ret = 0
    /\ dt_pc = "call"

\* The names of the entries of the desktop directories.
DesktopNames(dirs) == UNION {{e.name : e \in Range(dirs[i].files)} : i \in DOMAIN dirs}

\* _update_desktop_shortcuts(appid, applied_files); reading or writing some
\* of the files may fail.
CallUpdateDesktopShortcuts ==
    /\ dt_pc = "call"
    /\ \E bad \in SUBSET DesktopNames(dt_dirs), fault \in IoOutcomes \ {"ok"} :
        LET io == [n \in DesktopNames(dt_dirs) |-> IF n \in bad THEN fault ELSE "ok"]
            r == DesktopShortcuts(platform, dt_dirs, dt_appid, dt_applied, io)
        IN  /\ dt_ret' = r.count
            /\ dt_dirs' = r.dirs
    /\ dt_pc' = "ret"
    /\ UNCHANGED <<dt_appid, dt_applied, dt_before>>
    /\ UNCHANGED <<platform, matchVars, findVars, applyVars, shortcutVars,
                   cacheVars, extractVars, styleVars>>

SpecDesktop == DesktopInit /\ [][CallUpdateDesktopShortcuts]_vars

\* The icon reference line with the new path: IconFile=<path> in a .url
\* file, Icon=<path> in a .desktop file.
IconReferenceLine ==
    (IF platform = "Windows" THEN <<"IconFile=">> ELSE <<"Icon=">>)
    \o PathStr(ShortcutIconPath(platform, dt_applied))

\* The shortcut files of the desktop directories that hold the icon
\* reference line with the new path, each as <<directory, entry>>.
FilesWithIconReference ==
    {x \in {<<i, k>> : i \in DOMAIN dt_dirs, k \in 1..MaxShortcuts + 1} :
        /\ dt_dirs[x[1]].exists
        /\ x[2] <= Len(dt_dirs[x[1]].files)
        /\ IsShortcutFile(platform, dt_dirs[x[1]].files[x[2]])
        /\ IconReferenceLine \in
               Range(Split(ReadText(dt_dirs[x[1]].files[x[2]].bytes)))}

\* C16: the count the shortcut update returns is the number of shortcut
\* files that hold the icon reference line with the new path after the call;
\* a matched file with no icon line and no line to insert it after is not
\* counted.
C16_CountIsFilesWithIconLine ==
    (dt_pc = "ret" /\ ShortcutIconPath(platform, dt_applied) # NoFile) =>
        dt_ret = Cardinality(FilesWithIconReference)

====
